---- MODULE Spec2Model ----
(***************************************************************************)
(* Model of the translation-quality analyzer (kdziurman/translator).       *)
(*                                                                         *)
(* One run of analyzeUrl: the pages are fetched one at a time              *)
(* (WebScraper.scrapeMultipleLanguages), a baseline is selected            *)
(* (TranslationAnalyzer.analyzeTranslationQuality), every record whose URL *)
(* differs from the baseline's is compared against it                      *)
(* (analyzeAgainstBaseline / compareContent) and the scores and issue      *)
(* counts are aggregated.                                                  *)
(*                                                                         *)
(* Strings that the code inspects (URLs, scores that arrive as strings)    *)
(* are sequences of one-character strings, so that String.includes, the    *)
(* string concatenation of `+` and the string-to-number conversion of `/`  *)
(* are computed and not assumed.                                           *)
(***************************************************************************)
EXTENDS Integers, Sequences, FiniteSets, TLC

(***************************************************************************)
(* Bounds of the model.                                                    *)
(***************************************************************************)
\* the largest number of language URLs handed to scrapeMultipleLanguages
MaxLangUrls == 2

(***************************************************************************)
(* JavaScript values, as far as the aggregation touches them.  A value is  *)
(* a record [t, n, s, items]: t is the type tag, n the number of a "num",  *)
(* s the characters of a "str", items the elements of an "arr".            *)
(***************************************************************************)
Undefined == [t |-> "undefined", n |-> 0, s |-> <<>>, items |-> <<>>]

JsNull == [t |-> "null", n |-> 0, s |-> <<>>, items |-> <<>>]

NaN == [t |-> "nan", n |-> 0, s |-> <<>>, items |-> <<>>]

Num(k) == [t |-> "num", n |-> k, s |-> <<>>, items |-> <<>>]

Str(chars) == [t |-> "str", n |-> 0, s |-> chars, items |-> <<>>]

Arr(elems) == [t |-> "arr", n |-> 0, s |-> <<>>, items |-> elems]

\* a plain object that is neither an array nor a string, e.g. {}
Obj == [t |-> "obj", n |-> 0, s |-> <<>>, items |-> <<>>]

\* ToBoolean, as used by the `||` of compareContent
Truthy(v) ==
    CASE v.t = "undefined" -> FALSE
      [] v.t = "null" -> FALSE
      [] v.t = "nan" -> FALSE
      [] v.t = "num" -> v.n # 0
      [] v.t = "str" -> v.s # <<>>
      [] OTHER -> TRUE

\* a || b
OrDefault(a, b) == IF Truthy(a) THEN a ELSE b

Digits == <<"0", "1", "2", "3", "4", "5", "6", "7", "8", "9">>

IsDigit(c) == \E d \in 1..10 : Digits[d] = c

DigitVal(c) == (CHOOSE d \in 1..10 : Digits[d] = c) - 1

RECURSIVE NatToChars(_)
\* Number.prototype.toString of a non-negative integer
NatToChars(k) ==
    IF k < 10 THEN <<Digits[k + 1]>>
    ELSE NatToChars(k \div 10) \o <<Digits[(k % 10) + 1]>>

\* ToString of the values that can meet a string in `sum + comp.qualityScore`
ToChars(v) ==
    CASE v.t = "str" -> v.s
      [] v.t = "num" -> IF v.n < 0 THEN <<"-">> \o NatToChars(0 - v.n)
                        ELSE NatToChars(v.n)
      [] v.t = "nan" -> <<"N", "a", "N">>
      [] v.t = "undefined" ->
            <<"u", "n", "d", "e", "f", "i", "n", "e", "d">>
      [] v.t = "null" -> <<"n", "u", "l", "l">>
      [] v.t = "arr" /\ v.items = <<>> -> <<>>
      [] OTHER -> <<"[", "o", "b", "j", "e", "c", "t", "]">>

RECURSIVE CharsToNat(_)
CharsToNat(chars) ==
    IF chars = <<>> THEN 0
    ELSE 10 * CharsToNat(SubSeq(chars, 1, Len(chars) - 1))
         + DigitVal(chars[Len(chars)])

AllDigits(chars) == \A k \in 1..Len(chars) : IsDigit(chars[k])

\* ToNumber, as applied by `/` to its left operand
ToNumber(v) ==
    CASE v.t = "num" -> v
      [] v.t = "null" -> Num(0)
      [] v.t = "str" ->
            IF v.s = <<>> THEN Num(0)
            ELSE IF AllDigits(v.s) THEN Num(CharsToNat(v.s))
            ELSE IF v.s[1] = "-" /\ Len(v.s) > 1 /\ AllDigits(Tail(v.s))
                 THEN Num(0 - CharsToNat(Tail(v.s)))
            ELSE NaN
      [] v.t = "arr" /\ v.items = <<>> -> Num(0)
      [] OTHER -> NaN

\* a + b: string concatenation as soon as one operand is not a primitive
\* number, numeric addition otherwise
JsAdd(a, b) ==
    IF a.t \in {"str", "arr", "obj"} \/ b.t \in {"str", "arr", "obj"}
    THEN Str(ToChars(a) \o ToChars(b))
    ELSE LET x == ToNumber(a)
             y == ToNumber(b)
         IN IF x.t = "num" /\ y.t = "num" THEN Num(x.n + y.n) ELSE NaN

\* Math.round(a / k) for an integer k > 0: the nearest integer, a tie going
\* towards +Infinity
RoundDiv(a, k) ==
    LET x == ToNumber(a)
    IN IF x.t = "num" THEN Num((2 * x.n + k) \div (2 * k)) ELSE NaN

\* value.length of an array or a string; undefined on anything else
LengthOf(v) ==
    CASE v.t = "arr" -> Num(Len(v.items))
      [] v.t = "str" -> Num(Len(v.s))
      [] OTHER -> Undefined

(***************************************************************************)
(* URLs and pages.  What a fetch returns is outside the program: a fetch   *)
(* of a URL either fails or returns one of the pages of WebPages with that *)
(* URL.                                                                    *)
(***************************************************************************)
UrlEnNoSlash == <<"s", "/", "e", "n">>

UrlEn == <<"s", "/", "e", "n", "/">>

UrlEnglish == <<"s", "/", "e", "n", "g", "l", "i", "s", "h", "/">>

UrlDe == <<"s", "/", "d", "e", "/">>

Urls == {UrlEnNoSlash, UrlEn, UrlEnglish, UrlDe}

\* the URLs a run is started on
RequestedUrls == {UrlEnNoSlash, UrlDe}

\* the record scrapeUrl returns, reduced to the fields the analyzer reads
PageRecord(u, lang, html, title, words) ==
    [url |-> u, detectedLanguage |-> lang, htmlLang |-> html,
     title |-> title, wordCount |-> words]

WebPages ==
    { PageRecord(UrlEnNoSlash, "unknown", "", "Home", 120),
      PageRecord(UrlEnNoSlash, "unknown", "en", "Home EN", 80),
      PageRecord(UrlEn, "de", "de", "Startseite", 95),
      PageRecord(UrlEnglish, "unknown", "", "Welcome", 60),
      PageRecord(UrlDe, "en", "en-US", "Products", 40),
      PageRecord(UrlDe, "de", "de", "Produkte", 33) }

\* the outcomes of a successful scrapeUrl(u)
PagesAt(u) == {p \in WebPages : p.url = u}

\* a record slot that holds no page yet
NoPage == PageRecord(<<>>, "", "", "", 0)

\* the lists of language URLs a run can discover: no URL twice
LanguageUrlLists ==
    UNION {{l \in [1..k -> Urls] : \A m, n \in 1..k : l[m] = l[n] => m = n} :
              k \in 0..MaxLangUrls}

\* String.prototype.includes
Includes(str, sub) ==
    \E k \in 1..(Len(str) - Len(sub) + 1) :
        SubSeq(str, k, k + Len(sub) - 1) = sub

\* IsEnglishContent with the URL matched by path segment: a URL that ends in
\* "/en" is accepted as well
IsEnglishContentBySegment(content) ==
    \/ content.detectedLanguage = "en"
    \/ content.htmlLang = "en"
    \/ Includes(content.url, <<"/", "e", "n">>)
    \/ Includes(content.url, <<"/", "e", "n", "g", "l", "i", "s", "h", "/">>)

\* the predicate of scrapedContent.find in analyzeTranslationQuality
IsEnglishContent(content) ==
    \/ content.detectedLanguage = "en"
    \/ content.htmlLang = "en"
    \/ Includes(content.url, <<"/", "e", "n", "/">>)
    \/ Includes(content.url, <<"/", "e", "n", "g", "l", "i", "s", "h", "/">>)

RECURSIVE FindEnglishFrom(_, _)
\* Array.prototype.find from index k on: the first element the predicate
\* accepts, NoPage (undefined) when there is none
FindEnglishFrom(content, k) ==
    IF k > Len(content) THEN NoPage
    ELSE IF IsEnglishContent(content[k]) THEN content[k]
    ELSE FindEnglishFrom(content, k + 1)

FindEnglish(content) == FindEnglishFrom(content, 1)

RECURSIVE FilterOtherRecords(_, _)
\* FilterOtherUrls with the records compared instead of their URLs:
\* allContent.filter((content) => content !== baseline)
FilterOtherRecords(allContent, base) ==
    IF allContent = <<>> THEN <<>>
    ELSE IF Head(allContent) # base
         THEN <<Head(allContent)>> \o FilterOtherRecords(Tail(allContent), base)
    ELSE FilterOtherRecords(Tail(allContent), base)

RECURSIVE FilterOtherUrls(_, _)
\* allContent.filter((content) => content.url !== baseline.url)
FilterOtherUrls(allContent, base) ==
    IF allContent = <<>> THEN <<>>
    ELSE IF Head(allContent).url # base.url
         THEN <<Head(allContent)>> \o FilterOtherUrls(Tail(allContent), base)
    ELSE FilterOtherUrls(Tail(allContent), base)

(***************************************************************************)
(* The Quality Oracle.  What the model request returns is outside the      *)
(* program; OracleOutcomes lists the outcomes of one request:              *)
(*   kind "ok"          the content parses, to `analysis`;                 *)
(*   kind "raise"       the request throws;                                *)
(*   kind "unparsable"  JSON.parse throws on the content.                  *)
(* For the last two, hasJSON says whether the error message contains       *)
(* "JSON" and braces what /\{[\s\S]*\}/ finds in the message: "none",      *)
(* "bad" (a match that does not parse) or "json" (a match that parses, to  *)
(* `analysis`).                                                            *)
(***************************************************************************)
Issue(type, severity) == [isNull |-> FALSE, type |-> type, severity |-> severity]

\* a null element of an issues array
NullItem == [isNull |-> TRUE, type |-> "", severity |-> ""]

\* the object JSON.parse returns, reduced to the fields the aggregation reads
\* and to the fields named like those compareContent fills in from the target
\* (hasTarget: the object has them)
Analysis(score, issues) ==
    [isNull |-> FALSE, qualityScore |-> score, issues |-> issues,
     hasTarget |-> FALSE, targetUrl |-> <<>>, targetLanguage |-> "",
     targetTitle |-> ""]

\* an object that also has targetUrl, targetLanguage and targetTitle
AnalysisWithTarget(score, issues) ==
    [Analysis(score, issues) EXCEPT
        !.hasTarget = TRUE, !.targetUrl = <<"x">>, !.targetLanguage = "xx",
        !.targetTitle = "Injected"]

\* JSON.parse("null")
NullAnalysis ==
    [Analysis(Undefined, Undefined) EXCEPT !.isNull = TRUE]

Outcome(kind, hasJSON, braces, analysis) ==
    [kind |-> kind, hasJSON |-> hasJSON, braces |-> braces, analysis |-> analysis]

OracleOutcomes ==
    { \* well-formed answers
      Outcome("ok", FALSE, "none",
              AnalysisWithTarget(Num(85),
                                 Arr(<<Issue("grammar_error", "medium")>>))),
      Outcome("ok", FALSE, "none",
              Analysis(Num(100), Arr(<<Issue("mistranslation", "critical"),
                                       Issue("style", "low")>>))),
      \* an object without the expected fields
      Outcome("ok", FALSE, "none", Analysis(Undefined, Undefined)),
      \* fields of an unexpected shape
      Outcome("ok", FALSE, "none", Analysis(Num(150), Arr(<<>>))),
      Outcome("ok", FALSE, "none", Analysis(Str(<<"8", "5">>), Arr(<<>>))),
      Outcome("ok", FALSE, "none",
              Analysis(Num(70), Str(<<"n", "o", "n", "e">>))),
      Outcome("ok", FALSE, "none", Analysis(Num(70), Arr(<<NullItem>>))),
      Outcome("ok", FALSE, "none", Analysis(Num(70), Obj)),
      \* the request throws
      Outcome("raise", FALSE, "none", NullAnalysis),
      \* the content is not JSON
      Outcome("unparsable", TRUE, "none", NullAnalysis),
      Outcome("unparsable", TRUE, "json",
              AnalysisWithTarget(Num(60), Undefined)) }

\* ParsedComparison with the parsed object spread over the target's fields:
\* {targetUrl: target.url, ..., ...analysis}
ParsedComparisonSpread(target, analysis) ==
    [targetUrl |-> IF analysis.hasTarget THEN analysis.targetUrl ELSE target.url,
     targetLanguage |-> IF analysis.hasTarget THEN analysis.targetLanguage
                        ELSE target.detectedLanguage,
     targetTitle |-> IF analysis.hasTarget THEN analysis.targetTitle
                     ELSE target.title,
     qualityScore |-> OrDefault(analysis.qualityScore, Num(0)),
     issues |-> OrDefault(analysis.issues, Arr(<<>>))]

\* the Comparison compareContent builds from a parsed object
ParsedComparison(target, analysis) ==
    [targetUrl |-> target.url,
     targetLanguage |-> target.detectedLanguage,
     targetTitle |-> target.title,
     qualityScore |-> OrDefault(analysis.qualityScore, Num(0)),
     issues |-> OrDefault(analysis.issues, Arr(<<>>))]

\* DegradedComparison without the synthetic issue
DegradedComparisonNoIssue(target) ==
    [targetUrl |-> target.url,
     targetLanguage |-> target.detectedLanguage,
     targetTitle |-> target.title,
     qualityScore |-> Num(0),
     issues |-> Arr(<<>>)]

\* the Comparison compareContent returns at the end of its catch block
DegradedComparison(target) ==
    [targetUrl |-> target.url,
     targetLanguage |-> target.detectedLanguage,
     targetTitle |-> target.title,
     qualityScore |-> Num(0),
     issues |-> Arr(<<Issue("analysis_error", "critical")>>)]

\* which return statement of compareContent is reached
ComparePath(outcome) ==
    IF outcome.kind = "ok"
    THEN IF outcome.analysis.isNull THEN "degraded" ELSE "parsed"
    ELSE IF outcome.hasJSON /\ outcome.braces = "json" THEN "salvaged"
    ELSE "degraded"

\* compareContent(baseline, target) under one outcome of the request
compareContent(base, target, outcome) ==
    IF ComparePath(outcome) = "degraded" THEN DegradedComparison(target)
    ELSE ParsedComparison(target, outcome.analysis)

RECURSIVE CountCritical(_)
\* issues.filter((issue) => issue.severity === "critical").length
CountCritical(items) ==
    IF items = <<>> THEN 0
    ELSE (IF Head(items).severity = "critical" THEN 1 ELSE 0)
         + CountCritical(Tail(items))

\* whether comparison.issues.filter(...) throws a TypeError: issues has no
\* filter method, or the callback reads .severity of null
FilterThrows(issues) ==
    \/ issues.t # "arr"
    \/ \E k \in 1..Len(issues.items) : issues.items[k].isNull

RECURSIVE TotalScore(_, _)
\* comparisons.reduce((sum, comp) => sum + comp.qualityScore, sum)
TotalScore(comparisons, sum) ==
    IF comparisons = <<>> THEN sum
    ELSE TotalScore(Tail(comparisons), JsAdd(sum, Head(comparisons).qualityScore))

\* lines 110-124 of analyzeAgainstBaseline
WithOverallScore(results) ==
    IF Len(results.comparisons) > 0
    THEN [results EXCEPT !.overallScore =
              RoundDiv(TotalScore(results.comparisons, Num(0)),
                       Len(results.comparisons))]
    ELSE results

\* NewAnalysisResults with the language read from the wrong field
NewAnalysisResultsHtmlLang(base) ==
    [baseline |-> [url |-> base.url, language |-> base.htmlLang,
                   title |-> base.title, wordCount |-> base.wordCount],
     comparisons |-> <<>>,
     overallScore |-> Num(0),
     totalIssues |-> Num(0),
     criticalIssues |-> Num(0)]

\* the object analyzeAgainstBaseline creates before its loop
NewAnalysisResults(base) ==
    [baseline |-> [url |-> base.url, language |-> base.detectedLanguage,
                   title |-> base.title, wordCount |-> base.wordCount],
     comparisons |-> <<>>,
     overallScore |-> Num(0),
     totalIssues |-> Num(0),
     criticalIssues |-> Num(0)]

(***************************************************************************)
(* The Consistency Oracle.  Its answer is outside the program: the request *)
(* raises, or returns content that JSON.parse accepts ("ok") or rejects    *)
(* ("unparsable"); rejected content holds no brace pair ("none"), a brace  *)
(* pair that is not JSON ("bad") or one that is ("json").                  *)
(***************************************************************************)
\* an element of inconsistentTerms or of brandInconsistencies; `variations`
\* is the JS value of its field of that name
TermItem(variations) == [isNull |-> FALSE, variations |-> variations]

\* what JSON.parse made of the content, by the fields the program reads
TermResult(terms, brands, score) ==
    [isNull |-> FALSE, inconsistentTerms |-> terms,
     brandInconsistencies |-> brands, overallConsistencyScore |-> score]

NullTermResult ==
    [isNull |-> TRUE, inconsistentTerms |-> Undefined,
     brandInconsistencies |-> Undefined, overallConsistencyScore |-> Undefined]

\* the structure the catch block of analyzeTerminologyConsistency returns
EmptyTerminologyResults == TermResult(Arr(<<>>), Arr(<<>>), Num(0))

ConsistencyOutcome(kind, braces, result) ==
    [kind |-> kind, braces |-> braces, result |-> result]

ConsistencyOutcomes ==
    { ConsistencyOutcome("ok", "none",
          TermResult(Arr(<<TermItem(Arr(<<>>))>>), Arr(<<TermItem(Arr(<<>>))>>),
                     Num(85))),
      ConsistencyOutcome("ok", "none", TermResult(Arr(<<>>), Arr(<<>>), Num(100))),
      ConsistencyOutcome("ok", "none", TermResult(Arr(<<>>), Arr(<<>>), Undefined)),
      ConsistencyOutcome("ok", "none",
          TermResult(Arr(<<TermItem(Undefined)>>), Arr(<<>>), Num(70))),
      ConsistencyOutcome("ok", "none", NullTermResult),
      ConsistencyOutcome("raise", "none", NullTermResult),
      ConsistencyOutcome("unparsable", "none", NullTermResult),
      ConsistencyOutcome("unparsable", "bad", NullTermResult),
      ConsistencyOutcome("unparsable", "json",
          TermResult(Undefined, Arr(<<TermItem(Arr(<<>>))>>), Num(90))) }

\* how analyzeTerminologyConsistency ends on an outcome: with the parsed
\* content, with the content extracted from between the braces, or in its
\* catch block; `result.inconsistentTerms` throws on a null result
ConsistencyPath(outcome) ==
    IF outcome.kind = "raise" THEN "caught"
    ELSE IF outcome.kind = "unparsable" /\ outcome.braces # "json" THEN "caught"
    ELSE IF outcome.result.isNull THEN "caught"
    ELSE IF outcome.kind = "ok" THEN "parsed"
    ELSE "extracted"

\* analyzeTerminologyConsistency with the catch block returning nothing
analyzeTerminologyConsistencyRethrow(outcome) ==
    IF ConsistencyPath(outcome) = "caught" THEN NullTermResult
    ELSE outcome.result

analyzeTerminologyConsistency(outcome) ==
    IF ConsistencyPath(outcome) = "caught" THEN EmptyTerminologyResults
    ELSE outcome.result

(***************************************************************************)
(* The report, by the lines the properties speak of.                       *)
(***************************************************************************)
\* list && list.length > 0
NonEmptyList(list) ==
    /\ Truthy(list)
    /\ LengthOf(list).t = "num"
    /\ LengthOf(list).n > 0

\* forEach over a non-empty list throws: the list is no array, or an element
\* is null, or an element's `variations` is no array (term.variations.forEach,
\* brand.variations.join)
ListThrows(list) ==
    /\ NonEmptyList(list)
    /\ \/ list.t # "arr"
       \/ \E k \in 1..Len(list.items) :
              \/ list.items[k].isNull
              \/ list.items[k].variations.t # "arr"

\* generateTerminologyAnalysis throws a TypeError
TerminologyThrows(results) ==
    \/ ListThrows(results.inconsistentTerms)
    \/ ListThrows(results.brandInconsistencies)

\* the number of entries a list contributes to the section
ListedCount(list) == IF NonEmptyList(list) THEN Len(list.items) ELSE 0

\* generateTerminologyAnalysis: the score line (Undefined when left out),
\* the numbers of listed terms and brand elements, and whether the line
\* "No terminology or brand inconsistencies found!" is printed
generateTerminologyAnalysis(results) ==
    [score |-> IF Truthy(results.overallConsistencyScore)
               THEN results.overallConsistencyScore ELSE Undefined,
     terms |-> ListedCount(results.inconsistentTerms),
     brands |-> ListedCount(results.brandInconsistencies),
     noneFound |-> /\ ~NonEmptyList(results.inconsistentTerms)
                   /\ ~NonEmptyList(results.brandInconsistencies)]

RECURSIVE DetailedIssuesPerComparison(_, _)
\* DetailedIssuesFrom with issueCount set to n again for every comparison
DetailedIssuesPerComparison(comparisons, n) ==
    IF comparisons = <<>> THEN <<>>
    ELSE LET c == Head(comparisons)
             entries == [j \in 1..Len(c.issues.items) |->
                            [number |-> n + j - 1,
                             language |-> c.targetLanguage,
                             type |-> c.issues.items[j].type,
                             severity |-> c.issues.items[j].severity]]
         IN entries \o DetailedIssuesPerComparison(Tail(comparisons), n)

RECURSIVE DetailedIssuesFrom(_, _)
\* generateDetailedIssues: the numbered entries, issueCount starting at n
DetailedIssuesFrom(comparisons, n) ==
    IF comparisons = <<>> THEN <<>>
    ELSE LET c == Head(comparisons)
             entries == [j \in 1..Len(c.issues.items) |->
                            [number |-> n + j - 1,
                             language |-> c.targetLanguage,
                             type |-> c.issues.items[j].type,
                             severity |-> c.issues.items[j].severity]]
         IN entries \o DetailedIssuesFrom(Tail(comparisons), n + Len(entries))

generateDetailedIssues(results) == DetailedIssuesFrom(results.comparisons, 1)

\* generateDetailedIssues: issueCount === 1 after the loops, which adds the
\* line "No detailed issues found!"
NoDetailedIssuesLine(results) == 1 + Len(generateDetailedIssues(results)) = 1

\* the text no report was generated yet
NoReport ==
    [kind |-> "none", pages |-> 0, criticalIssues |-> Undefined,
     totalIssues |-> Undefined, detailed |-> <<>>, noDetailedIssues |-> FALSE,
     terminology |-> generateTerminologyAnalysis(NullTermResult)]

\* generateReport, for results whose sections can all be rendered
generateReport(results, terminology, content) ==
    [kind |-> "full", pages |-> Len(content),
     criticalIssues |-> results.criticalIssues,
     totalIssues |-> results.totalIssues,
     detailed |-> generateDetailedIssues(results),
     noDetailedIssues |-> NoDetailedIssuesLine(results),
     terminology |-> generateTerminologyAnalysis(terminology)]

\* generateSingleLanguageReport
generateSingleLanguageReport(content) ==
    [kind |-> "single", pages |-> 1, criticalIssues |-> Undefined,
     totalIssues |-> Undefined, detailed |-> <<>>, noDetailedIssues |-> FALSE,
     terminology |-> generateTerminologyAnalysis(NullTermResult)]

(***************************************************************************)
(* The state of one run.                                                   *)
(***************************************************************************)
VARIABLES
    entry,            \* the module whose main and analyzeUrl run
    url,              \* the requested URL
    apiKey,           \* process.env.OPENAI_API_KEY is set
    languageUrls,     \* the language URLs to scrape after the requested one
    idx,              \* scrapeMultipleLanguages: index of the next language URL
    scrapedContent,   \* the records scraped so far, then the scraped content
    pc,               \* where the run is
    baseline,         \* the baseline passed to analyzeAgainstBaseline
    warned,           \* "No English baseline found" was written by console.warn
    contentToAnalyze, \* analyzeAgainstBaseline: the records to compare
    i,                \* analyzeAgainstBaseline: index of the next record
    analysisResults,  \* analyzeAgainstBaseline: the result being built
    terminologyResults, \* what analyzeTerminologyConsistency returned
    report,           \* the report text generated
    exitCode,         \* the exit code of the process, "none" while it runs
    inFlight,         \* the external operations issued and not yet completed
    fetchLog,         \* the page fetches completed so far and how each ended
    discoveryCalls,   \* the discovery model requests completed so far
    discovery,        \* how discoverLanguageUrls ended, "none" before it has
    oracleCalls,      \* the Quality Oracle requests so far and how each ended
    consistencyCalls, \* the Consistency Oracle requests so far
    saved,            \* how the write of the report file ended, "none" before
    error,            \* the error that ended the run, "none" while there is none
    invocation,       \* which invocation of analyzeAgainstBaseline is running
    firstResults,     \* what its first invocation returned
    replay            \* the Quality Oracle's answers so far, by target

\* what a run is started with
started == <<entry, url, apiKey>>

\* the state of the scrape stage
scraping == <<languageUrls, idx, scrapedContent, fetchLog, discoveryCalls,
              discovery>>

\* the state of analyzeTranslationQuality
comparing == <<baseline, warned, contentToAnalyze, i, analysisResults,
               oracleCalls>>

\* the state of the stages after it
reporting == <<terminologyResults, report, consistencyCalls, saved>>

\* the state of a comparator invoked a second time
twice == <<invocation, firstResults, replay>>

vars == <<started, scraping, comparing, reporting, pc, exitCode, inFlight,
          error, twice>>

Entries == {"analyzer.js", "translation-analyzer.js"}

\* the URL main of analyzer.js analyzes
MainUrl == UrlEnNoSlash

\* the language paths the analyzeUrl of translation-analyzer.js is called
\* with: none (main with a URL argument) or some
GivenLanguagePaths == {<<>>} \cup {<<u>> : u \in Urls}

\* an external operation: the n-th page fetch of a stage, the request for
\* the n-th target, the only request or write of its kind (n = 1)
Op(kind, n) == [kind |-> kind, n |-> n]

NoTerminologyResults == NullTermResult

\* main has been entered.  analyzer.js discovers the language URLs itself;
\* the analyzeUrl of translation-analyzer.js is given them
Init ==
    /\ entry \in Entries
    /\ apiKey \in BOOLEAN
    /\ IF entry = "analyzer.js"
       THEN url = MainUrl /\ languageUrls = <<>>
       ELSE url \in RequestedUrls /\ languageUrls \in GivenLanguagePaths
    /\ pc = "main"
    /\ idx = 1
    /\ scrapedContent = <<>>
    /\ baseline = NoPage
    /\ warned = FALSE
    /\ contentToAnalyze = <<>>
    /\ i = 1
    /\ analysisResults = NewAnalysisResults(NoPage)
    /\ terminologyResults = NoTerminologyResults
    /\ report = NoReport
    /\ exitCode = "none"
    /\ inFlight = {}
    /\ fetchLog = <<>>
    /\ discoveryCalls = 0
    /\ discovery = "none"
    /\ oracleCalls = <<>>
    /\ consistencyCalls = <<>>
    /\ saved = "none"
    /\ error = "none"
    /\ invocation = 1
    /\ firstResults = NewAnalysisResults(NoPage)
    /\ replay = <<>>

\* Main without the check of the API key
MainUnchecked ==
    /\ pc = "main"
    /\ pc' = IF entry = "analyzer.js" THEN "discoverFetch" ELSE "scrapeBase"
    /\ inFlight' = {Op(pc', 1)}
    /\ UNCHANGED <<twice, started, scraping, comparing, reporting, exitCode, error>>

\* main: without the API key the process exits with code 1; with it
\* analyzeUrl runs up to its first fetch
Main ==
    /\ pc = "main"
    /\ IF ~apiKey
       THEN /\ pc' = "exited"
            /\ exitCode' = "1"
            /\ error' = "OpenAI API key not found!"
            /\ inFlight' = {}
       ELSE /\ pc' = IF entry = "analyzer.js" THEN "discoverFetch"
                     ELSE "scrapeBase"
            /\ exitCode' = exitCode
            /\ error' = error
            /\ inFlight' = {Op(pc', 1)}
    /\ UNCHANGED <<twice, started, scraping, comparing, reporting>>

\* an entry of fetchLog
Fetched(stage, u, page) ==
    [stage |-> stage, url |-> u, ok |-> page # NoPage, page |-> page]

\* DiscoverFetch without the catch block: a failed fetch aborts the run
DiscoverFetchRethrow ==
    /\ pc = "discoverFetch"
    /\ \E ok \in BOOLEAN :
          /\ fetchLog' = Append(fetchLog,
                 [stage |-> "discovery", url |-> url, ok |-> ok, page |-> NoPage])
          /\ pc' = IF ok THEN "discover" ELSE "failed"
          /\ discovery' = IF ok THEN discovery ELSE "fetchFailed"
          /\ error' = IF ok THEN error ELSE "Could not scrape base URL"
          /\ exitCode' = IF ok THEN exitCode ELSE "1"
    /\ inFlight' = (inFlight \ {Op(pc, 1)})
                   \cup (IF pc' = "discover" THEN {Op(pc', 1)} ELSE {})
    /\ UNCHANGED <<twice, started, languageUrls, idx, scrapedContent, discoveryCalls,
                   comparing, reporting>>

\* discoverLanguageUrls: the fetch of the base URL.  When it fails the catch
\* block returns [] and scrapeMultipleLanguages starts; the page is only
\* quoted in the prompt
DiscoverFetch ==
    /\ pc = "discoverFetch"
    /\ \E ok \in BOOLEAN :
          /\ fetchLog' = Append(fetchLog,
                 [stage |-> "discovery", url |-> url, ok |-> ok, page |-> NoPage])
          /\ pc' = IF ok THEN "discover" ELSE "scrapeBase"
          /\ discovery' = IF ok THEN discovery ELSE "fetchFailed"
    /\ inFlight' = (inFlight \ {Op(pc, 1)}) \cup {Op(pc', 1)}
    /\ UNCHANGED <<twice, started, languageUrls, idx, scrapedContent, discoveryCalls,
                   comparing, reporting, exitCode, error>>

\* what the discovery request ends in: it raises, or its content does not
\* parse, or it parses into an object whose discoveredPatterns cannot be
\* joined or whose languageUrls is missing, or into one that lists URLs
DiscoveryOutcomes ==
    {[kind |-> k, urls |-> <<>>] :
        k \in {"raise", "unparsable", "noPatterns", "noUrls"}}
    \cup {[kind |-> "ok", urls |-> l] : l \in LanguageUrlLists}

\* analyzer.js analyzeUrl, step 0: discoverLanguageUrls returns the list the
\* model found, or [] when the discovery failed
DiscoverLanguageUrls ==
    /\ pc = "discover"
    /\ \E found \in DiscoveryOutcomes :
          /\ languageUrls' = found.urls
          /\ discovery' = found.kind
    /\ discoveryCalls' = discoveryCalls + 1
    /\ pc' = "scrapeBase"
    /\ inFlight' = (inFlight \ {Op(pc, 1)}) \cup {Op(pc', 1)}
    /\ UNCHANGED <<twice, started, idx, scrapedContent, fetchLog, comparing,
                   reporting, exitCode, error>>

\* where scrapeMultipleLanguages is once `next` is the next language URL
AfterScrape(next) == IF next > Len(languageUrls) THEN "scraped" ELSE "scrapeLang"

\* scrapeMultipleLanguages with the fetches of all language URLs started
\* together
NextFetchAtOnce(next) ==
    {Op("scrapeLang", k) : k \in next..Len(languageUrls)}

\* the fetch scrapeMultipleLanguages awaits once `next` is the next language
\* URL
NextFetch(next) ==
    IF next > Len(languageUrls) THEN {} ELSE {Op("scrapeLang", next)}

\* scrapeMultipleLanguages: the base URL; a failed fetch adds no record
ScrapeBase ==
    /\ pc = "scrapeBase"
    /\ \/ \E page \in PagesAt(url) :
             /\ scrapedContent' = Append(scrapedContent, page)
             /\ fetchLog' = Append(fetchLog, Fetched("scrape", url, page))
       \/ /\ scrapedContent' = scrapedContent
          /\ fetchLog' = Append(fetchLog, Fetched("scrape", url, NoPage))
    /\ pc' = AfterScrape(1)
    /\ inFlight' = (inFlight \ {Op(pc, 1)}) \cup NextFetch(1)
    /\ UNCHANGED <<twice, started, languageUrls, idx, discoveryCalls, discovery, comparing,
                   reporting, exitCode, error>>

\* ScrapeLanguage fetching a URL again when its fetch failed
ScrapeLanguageRetry ==
    /\ pc = "scrapeLang"
    /\ \/ /\ \E page \in PagesAt(languageUrls[idx]) :
                /\ scrapedContent' = Append(scrapedContent, page)
                /\ fetchLog' = Append(fetchLog,
                       Fetched("scrape", languageUrls[idx], page))
          /\ idx' = idx + 1
          /\ pc' = AfterScrape(idx + 1)
          /\ inFlight' = (inFlight \ {Op(pc, idx)}) \cup NextFetch(idx + 1)
       \/ /\ scrapedContent' = scrapedContent
          /\ fetchLog' = Append(fetchLog,
                 Fetched("scrape", languageUrls[idx], NoPage))
          /\ idx' = idx
          /\ pc' = pc
          /\ inFlight' = inFlight
    /\ UNCHANGED <<twice, started, languageUrls, discoveryCalls, discovery, comparing,
                   reporting, exitCode, error>>

\* ScrapeLanguage leaving the loop at the first fetch that fails
ScrapeLanguageBreak ==
    /\ pc = "scrapeLang"
    /\ \/ /\ \E page \in PagesAt(languageUrls[idx]) :
                /\ scrapedContent' = Append(scrapedContent, page)
                /\ fetchLog' = Append(fetchLog,
                       Fetched("scrape", languageUrls[idx], page))
          /\ pc' = AfterScrape(idx + 1)
          /\ inFlight' = (inFlight \ {Op(pc, idx)}) \cup NextFetch(idx + 1)
       \/ /\ scrapedContent' = scrapedContent
          /\ fetchLog' = Append(fetchLog,
                 Fetched("scrape", languageUrls[idx], NoPage))
          /\ pc' = "scraped"
          /\ inFlight' = inFlight \ {Op(pc, idx)}
    /\ idx' = idx + 1
    /\ UNCHANGED <<twice, started, languageUrls, discoveryCalls, discovery, comparing,
                   reporting, exitCode, error>>

\* scrapeMultipleLanguages: one turn of the loop over languageUrls
ScrapeLanguage ==
    /\ pc = "scrapeLang"
    /\ \/ \E page \in PagesAt(languageUrls[idx]) :
             /\ scrapedContent' = Append(scrapedContent, page)
             /\ fetchLog' = Append(fetchLog,
                    Fetched("scrape", languageUrls[idx], page))
       \/ /\ scrapedContent' = scrapedContent
          /\ fetchLog' = Append(fetchLog,
                 Fetched("scrape", languageUrls[idx], NoPage))
    /\ idx' = idx + 1
    /\ pc' = AfterScrape(idx + 1)
    /\ inFlight' = (inFlight \ {Op(pc, idx)}) \cup NextFetch(idx + 1)
    /\ UNCHANGED <<twice, started, languageUrls, discoveryCalls, discovery, comparing,
                   reporting, exitCode, error>>

\* NoContent without the check of the length: analyzeUrl goes on to the
\* request of the Consistency Oracle
NoContentUnchecked ==
    /\ pc = "scraped"
    /\ Len(scrapedContent) = 0
    /\ pc' = "analysed"
    /\ inFlight' = inFlight \cup {Op("consistency", 1)}
    /\ UNCHANGED <<twice, started, scraping, comparing, reporting, exitCode, error>>

\* analyzeUrl: nothing was scraped; the error reaches main, which exits
\* with code 1
NoContent ==
    /\ pc = "scraped"
    /\ Len(scrapedContent) = 0
    /\ pc' = "failed"
    /\ error' = "No content could be scraped from the provided URLs"
    /\ exitCode' = "1"
    /\ UNCHANGED <<twice, started, scraping, comparing, reporting, inFlight>>

\* analyzer.js analyzeUrl: fewer than two records, the single-language report
\* is generated and saveReport is awaited
SingleLanguage ==
    /\ pc = "scraped"
    /\ entry = "analyzer.js"
    /\ Len(scrapedContent) = 1
    /\ report' = generateSingleLanguageReport(scrapedContent[1])
    /\ pc' = "single"
    /\ inFlight' = inFlight \cup {Op("write", 1)}
    /\ UNCHANGED <<twice, started, scraping, comparing, terminologyResults,
                   consistencyCalls, saved, exitCode, error>>

\* SelectBaseline falling back to the last record
SelectBaselineLast(content) ==
    IF FindEnglish(content) = NoPage THEN content[Len(content)]
    ELSE FindEnglish(content)

\* the baseline analyzeTranslationQuality passes on
SelectBaseline(content) ==
    IF FindEnglish(content) = NoPage THEN content[1] ELSE FindEnglish(content)

\* the request analyzeUrl awaits once analyzeAgainstBaseline is at target
\* `next`: the Quality Oracle's for that target or, the comparator having
\* returned, the Consistency Oracle's
NextRequest(targets, next) ==
    IF next > Len(targets) THEN {Op("consistency", 1)}
    ELSE {Op("quality", next)}

\* analyzeTranslationQuality up to the first request of analyzeAgainstBaseline:
\* the baseline is selected, the result object is created and the records to
\* compare are filtered; with nothing to compare the result is returned
AnalyzeTranslationQuality ==
    /\ pc = "scraped"
    /\ Len(scrapedContent) > 0
    /\ entry = "analyzer.js" => Len(scrapedContent) >= 2
    /\ baseline' = SelectBaseline(scrapedContent)
    /\ warned' = (FindEnglish(scrapedContent) = NoPage)
    /\ contentToAnalyze' = FilterOtherUrls(scrapedContent, baseline')
    /\ analysisResults' = WithOverallScore(NewAnalysisResults(baseline'))
    /\ i' = 1
    /\ pc' = IF contentToAnalyze' = <<>> THEN "analysed" ELSE "compare"
    /\ inFlight' = inFlight \cup NextRequest(contentToAnalyze', 1)
    /\ UNCHANGED <<twice, started, scraping, oracleCalls, reporting, exitCode, error>>

\* Accumulate with `=` in place of `+=` on totalIssues
AccumulateAssign(results, comparison) ==
    [results EXCEPT
        !.comparisons = Append(@, comparison),
        !.totalIssues = LengthOf(comparison.issues),
        !.criticalIssues = JsAdd(@, Num(CountCritical(comparison.issues.items)))]

\* Accumulate putting the comparison in front of the earlier ones
AccumulatePrepend(results, comparison) ==
    [results EXCEPT
        !.comparisons = <<comparison>> \o @,
        !.totalIssues = JsAdd(@, LengthOf(comparison.issues)),
        !.criticalIssues = JsAdd(@, Num(CountCritical(comparison.issues.items)))]

\* the result object after lines 99-103 of the loop body, for a comparison
\* whose issues can be filtered
Accumulate(results, comparison) ==
    [results EXCEPT
        !.comparisons = Append(@, comparison),
        !.totalIssues = JsAdd(@, LengthOf(comparison.issues)),
        !.criticalIssues = JsAdd(@, Num(CountCritical(comparison.issues.items)))]

\* the result object when line 101 throws: lines 99 and 100 have run
AccumulateThrown(results, comparison) ==
    [results EXCEPT
        !.comparisons = Append(@, comparison),
        !.totalIssues = JsAdd(@, LengthOf(comparison.issues))]

\* one turn of the loop of analyzeAgainstBaseline on the oracle's outcome:
\* the request, compareContent, the accumulation; after the last turn the
\* overall score and the return.  A TypeError of line 101 reaches main, which
\* exits with code 1
CompareTurn(outcome) ==
    LET target == contentToAnalyze[i]
        comparison == compareContent(baseline, target, outcome)
    IN /\ oracleCalls' = Append(oracleCalls,
               [baseline |-> baseline, target |-> target,
                kind |-> outcome.kind, hasJSON |-> outcome.hasJSON,
                braces |-> outcome.braces])
       /\ IF FilterThrows(comparison.issues)
          THEN /\ analysisResults' =
                      AccumulateThrown(analysisResults, comparison)
               /\ pc' = "failed"
               /\ error' = "TypeError"
               /\ exitCode' = "1"
               /\ i' = i
               /\ inFlight' = inFlight \ {Op("quality", i)}
          ELSE /\ i' = i + 1
               /\ error' = error
               /\ exitCode' = exitCode
               /\ inFlight' = (inFlight \ {Op("quality", i)})
                              \cup NextRequest(contentToAnalyze, i + 1)
               /\ IF i + 1 > Len(contentToAnalyze)
                  THEN /\ analysisResults' = WithOverallScore(
                              Accumulate(analysisResults, comparison))
                       /\ pc' = "analysed"
                  ELSE /\ analysisResults' =
                              Accumulate(analysisResults, comparison)
                       /\ pc' = "compare"

\* CompareNext sending the request again when it raised
CompareNextRetry ==
    /\ pc = "compare"
    /\ \E outcome \in OracleOutcomes :
          IF outcome.kind = "raise"
          THEN /\ oracleCalls' = Append(oracleCalls,
                      [baseline |-> baseline, target |-> contentToAnalyze[i],
                       kind |-> outcome.kind, hasJSON |-> outcome.hasJSON,
                       braces |-> outcome.braces])
               /\ UNCHANGED <<analysisResults, pc, error, exitCode, i, inFlight>>
          ELSE CompareTurn(outcome)
    /\ UNCHANGED <<twice, started, scraping, baseline, warned, contentToAnalyze,
                   reporting>>

\* a turn of the loop, whatever the oracle answers
CompareNext ==
    /\ pc = "compare"
    /\ \E outcome \in OracleOutcomes : CompareTurn(outcome)
    /\ UNCHANGED <<twice, started, scraping, baseline, warned, contentToAnalyze,
                   reporting>>

\* the Consistency Oracle's request completes: analyzeTerminologyConsistency
\* returns, generateReport renders the report, and saveReport is awaited.  A
\* TypeError of generateReport reaches main, which exits with code 1
AnalyzeTerminologyConsistency ==
    /\ pc = "analysed"
    /\ \E outcome \in ConsistencyOutcomes :
          /\ terminologyResults' = analyzeTerminologyConsistency(outcome)
          /\ consistencyCalls' = Append(consistencyCalls,
                 [records |-> scrapedContent,
                  path |-> ConsistencyPath(outcome)])
    /\ IF TerminologyThrows(terminologyResults')
       THEN /\ report' = report
            /\ pc' = "failed"
            /\ error' = "TypeError in generateReport"
            /\ exitCode' = "1"
            /\ inFlight' = inFlight \ {Op("consistency", 1)}
       ELSE /\ report' = generateReport(analysisResults, terminologyResults',
                                        scrapedContent)
            /\ pc' = "saving"
            /\ error' = error
            /\ exitCode' = exitCode
            /\ inFlight' = (inFlight \ {Op("consistency", 1)})
                           \cup {Op("write", 1)}
    /\ UNCHANGED <<twice, started, scraping, comparing, saved>>

\* SaveReport without the catch block: a failed write aborts the run
SaveReportRethrow ==
    /\ pc \in {"single", "saving"}
    /\ \E written \in BOOLEAN :
          /\ saved' = IF written THEN "written" ELSE "failed"
          /\ pc' = IF written THEN "done" ELSE "failed"
          /\ exitCode' = IF written THEN "0" ELSE "1"
          /\ error' = IF written THEN error ELSE "Error saving report"
    /\ inFlight' = inFlight \ {Op("write", 1)}
    /\ UNCHANGED <<twice, started, scraping, comparing, terminologyResults,
                   report, consistencyCalls>>

\* saveReport returns, the file written or the error of the write logged;
\* analyzeUrl returns and main ends
SaveReport ==
    /\ pc \in {"single", "saving"}
    /\ saved' \in {"written", "failed"}
    /\ pc' = "done"
    /\ exitCode' = "0"
    /\ inFlight' = inFlight \ {Op("write", 1)}
    /\ UNCHANGED <<twice, started, scraping, comparing, terminologyResults,
                   report, consistencyCalls, error>>

Next ==
    \/ Main
    \/ DiscoverFetch
    \/ DiscoverLanguageUrls
    \/ ScrapeBase
    \/ ScrapeLanguage
    \/ NoContent
    \/ SingleLanguage
    \/ AnalyzeTranslationQuality
    \/ CompareNext
    \/ AnalyzeTerminologyConsistency
    \/ SaveReport

Spec == Init /\ [][Next]_vars

\* the runs in which every operation awaited returns or fails: each action
\* is the completion of the one operation the run awaits
SpecFair == Spec /\ WF_vars(Next)

(***************************************************************************)
(* The comparator invoked twice on the same baseline and records, with an  *)
(* oracle that answers the same target the same way every time.            *)
(***************************************************************************)
\* the oracle may answer `outcome` for `target`: it has not answered that
\* target otherwise before
Deterministic(target, outcome) ==
    \A k \in 1..Len(replay) :
        replay[k].target = target => replay[k].outcome = outcome

\* a turn of the loop with a deterministic oracle
CompareDeterministic ==
    /\ pc = "compare"
    /\ \E outcome \in OracleOutcomes :
          /\ Deterministic(contentToAnalyze[i], outcome)
          /\ CompareTurn(outcome)
          /\ replay' = Append(replay,
                 [target |-> contentToAnalyze[i], outcome |-> outcome])
    /\ UNCHANGED <<invocation, firstResults, started, scraping, baseline,
                   warned, contentToAnalyze, reporting>>

\* Reinvoke with the result object of the first invocation used again
ReinvokeKeepingResults ==
    /\ pc = "analysed"
    /\ invocation = 1
    /\ invocation' = 2
    /\ firstResults' = analysisResults
    /\ contentToAnalyze' = FilterOtherUrls(scrapedContent, baseline)
    /\ analysisResults' = WithOverallScore(analysisResults)
    /\ i' = 1
    /\ pc' = IF contentToAnalyze' = <<>> THEN "analysed" ELSE "compare"
    /\ inFlight' = NextRequest(contentToAnalyze', 1)
    /\ UNCHANGED <<replay, started, scraping, baseline, warned, oracleCalls,
                   reporting, exitCode, error>>

\* analyzeAgainstBaseline is invoked again with the baseline and the records
\* of its first invocation: a new result object, the records filtered anew
Reinvoke ==
    /\ pc = "analysed"
    /\ invocation = 1
    /\ invocation' = 2
    /\ firstResults' = analysisResults
    /\ contentToAnalyze' = FilterOtherUrls(scrapedContent, baseline)
    /\ analysisResults' = WithOverallScore(NewAnalysisResults(baseline))
    /\ i' = 1
    /\ pc' = IF contentToAnalyze' = <<>> THEN "analysed" ELSE "compare"
    /\ inFlight' = NextRequest(contentToAnalyze', 1)
    /\ UNCHANGED <<replay, started, scraping, baseline, warned, oracleCalls,
                   reporting, exitCode, error>>

NextTwice ==
    \/ Main
    \/ DiscoverFetch
    \/ DiscoverLanguageUrls
    \/ ScrapeBase
    \/ ScrapeLanguage
    \/ NoContent
    \/ SingleLanguage
    \/ AnalyzeTranslationQuality
    \/ CompareDeterministic
    \/ Reinvoke

SpecTwice == Init /\ [][NextTwice]_vars

(***************************************************************************)
(* Vocabulary of the properties.                                           *)
(***************************************************************************)
\* analyzeAgainstBaseline has been entered
AnalysisStarted ==
    \/ pc \in {"compare", "analysed"}
    \/ pc = "failed" /\ error = "TypeError"

\* analyzeAgainstBaseline is between two turns of its loop or has returned
BetweenTurns == pc \in {"compare", "analysed"}

\* analyzeAgainstBaseline has returned its result
Returned == pc = "analysed"

Comparisons == analysisResults.comparisons

\* the records of the scraped content whose URL is not the baseline's
OtherUrlRecords == SelectSeq(scrapedContent, LAMBDA r : r.url # baseline.url)

\* r is the nearest integer to sum / n, a tie going to the larger one
IsRoundedMean(r, sum, n) ==
    /\ 2 * r * n - n <= 2 * sum
    /\ 2 * sum < 2 * r * n + n

RECURSIVE SumOfScores(_)
\* the sum of the scores of a sequence of comparisons, each score taken as
\* the number it denotes
SumOfScores(comparisons) ==
    IF comparisons = <<>> THEN 0
    ELSE ToNumber(Head(comparisons).qualityScore).n
         + SumOfScores(Tail(comparisons))

\* the positions <<k, j>> of all issues of all comparisons
IssuePositions ==
    UNION {{<<k, j>> : j \in 1..Len(Comparisons[k].issues.items)} :
              k \in 1..Len(Comparisons)}

\* the shape of a degraded Comparison
IsDegraded(c) ==
    /\ c.qualityScore = Num(0)
    /\ c.issues.t = "arr"
    /\ Len(c.issues.items) = 1
    /\ c.issues.items[1].type = "analysis_error"
    /\ c.issues.items[1].severity = "critical"

\* the k-th request failed: it threw, or its content did not parse
CallFailed(k) == oracleCalls[k].kind \in {"raise", "unparsable"}

\* the catch block of compareContent recovered an object from the message
CallSalvaged(k) ==
    CallFailed(k) /\ oracleCalls[k].hasJSON /\ oracleCalls[k].braces = "json"

\* the rule of the specification for an English record
SpecEnglishRule(r) ==
    \/ r.detectedLanguage = "en"
    \/ Includes(r.url, <<"/", "e", "n", "/">>)
    \/ Includes(r.url, <<"/", "e", "n", "g", "l", "i", "s", "h", "/">>)

\* the rule with the htmlLang attribute added
CodeEnglishRule(r) == SpecEnglishRule(r) \/ r.htmlLang = "en"

\* the baseline is the record of lowest index among those of `matching`,
\* the first record when there is none
IsLowestOrFirst(matching) ==
    IF matching = {} THEN baseline = scrapedContent[1]
    ELSE \E k \in matching :
            /\ \A j \in matching : k <= j
            /\ baseline = scrapedContent[k]

(***************************************************************************)
(* C1..C10: the aggregation and the baseline selection.                    *)
(***************************************************************************)

\* C1: in every result analyzeAgainstBaseline returns, overallScore is the
\* rounded arithmetic mean of the comparisons' quality scores, and 0 when
\* there is no comparison (so 0 when every comparison is degraded).
C1_OverallScoreIsRoundedMean ==
    Returned =>
        /\ analysisResults.overallScore.t = "num"
        /\ IF Comparisons = <<>> THEN analysisResults.overallScore.n = 0
           ELSE IsRoundedMean(analysisResults.overallScore.n,
                              SumOfScores(Comparisons), Len(Comparisons))

\* C2: between the turns of the comparison loop and in the returned result,
\* totalIssues is the number of issues of the comparisons appended so far,
\* criticalIssues the number of those of severity "critical", and
\* criticalIssues <= totalIssues.
C2_IssueCounts ==
    BetweenTurns =>
        /\ \A k \in 1..Len(Comparisons) : Comparisons[k].issues.t = "arr"
        /\ analysisResults.totalIssues = Num(Cardinality(IssuePositions))
        /\ analysisResults.criticalIssues =
              Num(Cardinality({p \in IssuePositions :
                  Comparisons[p[1]].issues.items[p[2]].severity = "critical"}))
        /\ analysisResults.criticalIssues.n <= analysisResults.totalIssues.n

\* C2, witness: a returned result of two comparisons with several issues,
\* some of them critical and some not.
C2_Witness ==
    /\ Returned
    /\ Len(Comparisons) = 2
    /\ analysisResults.criticalIssues.n >= 1
    /\ analysisResults.totalIssues.n > analysisResults.criticalIssues.n + 1

\* C3: the baseline is one of the scraped records, and the baseline block of
\* the result carries that record's url, detectedLanguage, title and
\* wordCount.
C3_BaselineIsMember ==
    AnalysisStarted =>
        \E k \in 1..Len(scrapedContent) :
            /\ baseline = scrapedContent[k]
            /\ analysisResults.baseline.url = scrapedContent[k].url
            /\ analysisResults.baseline.language =
                  scrapedContent[k].detectedLanguage
            /\ analysisResults.baseline.title = scrapedContent[k].title
            /\ analysisResults.baseline.wordCount = scrapedContent[k].wordCount

\* C3, witness: a returned result whose baseline is not the first record.
C3_Witness ==
    /\ Returned
    /\ Len(scrapedContent) = 3
    /\ baseline = scrapedContent[3]
    /\ baseline # scrapedContent[1]
    /\ baseline # scrapedContent[2]
    /\ Len(Comparisons) = 2

\* C4 as stated: the baseline is the lowest-index record whose
\* detectedLanguage is "en" or whose URL contains "/en/" or "/english/", and
\* the first record when no record is such; nothing else makes a record
\* eligible.
C4_Original ==
    AnalysisStarted =>
        IsLowestOrFirst({k \in 1..Len(scrapedContent) :
                            SpecEnglishRule(scrapedContent[k])})

\* C4 as amended: the baseline is the lowest-index record whose
\* detectedLanguage is "en", whose htmlLang is "en" or whose URL contains
\* "/en/" or "/english/", and the first record when no record is such; a URL
\* ending in "/en" does not make a record eligible.
C4_Amended ==
    AnalysisStarted =>
        IsLowestOrFirst({k \in 1..Len(scrapedContent) :
                            CodeEnglishRule(scrapedContent[k])})

\* C4, witness: a later record has a URL ending in "/en", neither
\* detectedLanguage nor htmlLang "en"; no record is eligible and the first
\* record is the baseline.
C4_Witness ==
    /\ AnalysisStarted
    /\ Len(scrapedContent) >= 2
    /\ scrapedContent[2].url = UrlEnNoSlash
    /\ scrapedContent[2].detectedLanguage # "en"
    /\ scrapedContent[2].htmlLang # "en"
    /\ scrapedContent[1].url # UrlEnNoSlash
    /\ baseline = scrapedContent[1]
    /\ warned

\* C5: when no record is English, the first record is the baseline, the
\* warning is written, and the comparison runs to completion: it does not
\* end in an error.
C5_FallbackCompletes ==
    (AnalysisStarted /\ \A k \in 1..Len(scrapedContent) :
                            ~CodeEnglishRule(scrapedContent[k])) =>
        /\ baseline = scrapedContent[1]
        /\ warned
        /\ pc # "failed"

\* C6 as stated: every failed request (it threw, or its content did not
\* parse) leaves a degraded Comparison; a returned result has one comparison
\* per target, at least as many degraded ones as failed requests, and at
\* least as many critical issues.
C6_Original ==
    /\ \A k \in 1..Len(Comparisons) : CallFailed(k) => IsDegraded(Comparisons[k])
    /\ Returned =>
          LET failed == {k \in 1..Len(oracleCalls) : CallFailed(k)}
          IN /\ Len(Comparisons) = Len(contentToAnalyze)
             /\ Cardinality({k \in 1..Len(Comparisons) :
                    IsDegraded(Comparisons[k])}) >= Cardinality(failed)
             /\ analysisResults.criticalIssues.n >= Cardinality(failed)

\* C6 as amended: every failed request from whose error message no object
\* is salvaged leaves a degraded Comparison; a returned result has one
\* comparison per target, at least as many degraded ones as such requests,
\* and at least as many critical issues.
C6_Amended ==
    /\ \A k \in 1..Len(Comparisons) :
          (CallFailed(k) /\ ~CallSalvaged(k)) => IsDegraded(Comparisons[k])
    /\ Returned =>
          LET failed == {k \in 1..Len(oracleCalls) :
                            CallFailed(k) /\ ~CallSalvaged(k)}
          IN /\ Len(Comparisons) = Len(contentToAnalyze)
             /\ Cardinality({k \in 1..Len(Comparisons) :
                    IsDegraded(Comparisons[k])}) >= Cardinality(failed)
             /\ analysisResults.criticalIssues.n >= Cardinality(failed)

\* C6, witness: a returned result of two comparisons, the first from a
\* request that threw, the second from unparsable content.
C6_Witness ==
    /\ Returned
    /\ Len(Comparisons) = 2
    /\ oracleCalls[1].kind = "raise"
    /\ ~CallSalvaged(1)
    /\ oracleCalls[2].kind = "unparsable"
    /\ ~CallSalvaged(2)
    /\ analysisResults.criticalIssues.n = 2

\* C7: whatever the oracle answers, analyzeAgainstBaseline does not raise,
\* and it returns one comparison, from one request, per target.
C7_NeverRaises ==
    AnalysisStarted =>
        /\ pc # "failed"
        /\ Returned =>
              /\ Len(Comparisons) = Len(contentToAnalyze)
              /\ Len(oracleCalls) = Len(contentToAnalyze)

\* C8: once analyzeAgainstBaseline has ended, the oracle has been asked
\* exactly once for each record whose URL differs from the baseline's, in
\* input order and with the baseline as first argument, and the i-th
\* comparison is that of the i-th such record.
C8_OncePerTarget ==
    (AnalysisStarted /\ pc # "compare") =>
        /\ Len(oracleCalls) = Len(OtherUrlRecords)
        /\ \A k \in 1..Len(oracleCalls) :
              /\ oracleCalls[k].baseline = baseline
              /\ oracleCalls[k].target = OtherUrlRecords[k]
              /\ Comparisons[k].targetUrl = OtherUrlRecords[k].url
              /\ Comparisons[k].targetUrl # baseline.url

\* C9 as stated: a result from N records has N - 1 comparisons, also when
\* several records carry the same URL.
C9_Original ==
    Returned => Len(Comparisons) = Len(scrapedContent) - 1

\* C9 as amended: a result has one comparison for every record whose URL
\* differs from the baseline's; these are N - 1 exactly when no other record
\* carries the baseline's URL.
C9_Amended ==
    Returned =>
        LET others == {k \in 1..Len(scrapedContent) :
                          scrapedContent[k].url # baseline.url}
            same == {k \in 1..Len(scrapedContent) :
                          scrapedContent[k].url = baseline.url}
        IN /\ Len(Comparisons) = Cardinality(others)
           /\ \A k \in 1..Len(Comparisons) :
                 Comparisons[k].targetUrl # baseline.url
           /\ (Len(Comparisons) = Len(scrapedContent) - 1)
                 <=> (Cardinality(same) = 1)

\* C9, witness: three records, two of them at the baseline's URL, one
\* comparison.
C9_Witness ==
    /\ Returned
    /\ Len(scrapedContent) = 3
    /\ scrapedContent[1].url = scrapedContent[2].url
    /\ scrapedContent[1] # scrapedContent[2]
    /\ baseline.url = scrapedContent[1].url
    /\ Len(Comparisons) = 1

\* C10: every comparison's qualityScore is an integer in 0..100, and so is
\* the overallScore of a returned result.
C10_ScoresInRange ==
    /\ \A k \in 1..Len(Comparisons) :
          /\ Comparisons[k].qualityScore.t = "num"
          /\ Comparisons[k].qualityScore.n \in 0..100
    /\ Returned =>
          /\ analysisResults.overallScore.t = "num"
          /\ analysisResults.overallScore.n \in 0..100

(***************************************************************************)
(* The stages of a run.                                                    *)
(***************************************************************************)
NoContentError == "No content could be scraped from the provided URLs"

\* the run was aborted because nothing was scraped
AbortedNoContent == pc = "failed" /\ error = NoContentError

\* scrapeMultipleLanguages has returned
FetchStageOver ==
    pc \notin {"main", "exited", "discoverFetch", "discover", "scrapeBase",
               "scrapeLang"}

\* the operations in flight of one kind
InFlightOf(kind) == {op \in inFlight : op.kind = kind}

\* no request was issued to the Quality Oracle or to the Consistency Oracle
NoOracleCall ==
    /\ oracleCalls = <<>>
    /\ consistencyCalls = <<>>
    /\ InFlightOf("quality") = {}
    /\ InFlightOf("consistency") = {}

\* no discovery request was issued
NoDiscoveryRequest == discoveryCalls = 0 /\ InFlightOf("discover") = {}

\* C11 as stated: when the fetch stage yields no record, the run aborts with
\* the "no content" error, and then no request of any kind has been issued:
\* none to the Quality Oracle, none to the Consistency Oracle, and no
\* discovery request
C11_Original ==
    /\ (FetchStageOver /\ scrapedContent = <<>>) =>
          (pc = "scraped" \/ AbortedNoContent)
    /\ AbortedNoContent => (NoOracleCall /\ NoDiscoveryRequest)

\* C11 as amended: when the fetch stage yields no record, the run aborts with
\* the "no content" error and exit code 1, and then no request has been
\* issued to the Quality Oracle or to the Consistency Oracle; a discovery
\* request was issued only by analyzer.js, and only after the discovery's
\* own fetch of the requested URL succeeded
C11_Amended ==
    /\ (FetchStageOver /\ scrapedContent = <<>>) =>
          (pc = "scraped" \/ AbortedNoContent)
    /\ AbortedNoContent =>
          /\ NoOracleCall
          /\ exitCode = "1"
          /\ inFlight = {}
          /\ InFlightOf("discover") = {}
          /\ discoveryCalls =
                IF entry = "analyzer.js" /\ fetchLog[1].stage = "discovery"
                   /\ fetchLog[1].ok
                THEN 1 ELSE 0

\* the run was aborted for want of content after a discovery request
C11_Witness == AbortedNoContent /\ discoveryCalls = 1

\* the Baseline Selector has run
BaselineSelected == baseline # NoPage

\* C12: when the fetch stage yields exactly one record, whichever module's
\* analyzeUrl runs, no request is issued to the Quality Oracle or to the
\* Consistency Oracle, the Baseline Selector does not run, and the run ends
\* successfully with the single-language report
C12_SingleRecordSkipsAnalysis ==
    (FetchStageOver /\ Len(scrapedContent) = 1) =>
        /\ NoOracleCall
        /\ ~BaselineSelected
        /\ pc \in {"scraped", "single", "done"}
        /\ pc \in {"single", "done"} => report.kind = "single"
        /\ pc = "done" => exitCode = "0"

\* analyzeTerminologyConsistency has returned
ConsistencyReturned == consistencyCalls # <<>>

\* the Consistency Oracle's request ended in the catch block: it raised, or
\* its content could neither be parsed nor extracted, or parsed into null
ConsistencyFailed == ConsistencyReturned /\ consistencyCalls[1].path = "caught"

\* C13: analyzeTerminologyConsistency never raises: it issues exactly one
\* request, which holds every fetched record, and returns a value; when the
\* request raises or its content can be neither parsed nor extracted, the
\* value is exactly {inconsistentTerms: [], brandInconsistencies: [],
\* overallConsistencyScore: 0}
C13_ConsistencyNeverRaises ==
    /\ pc \in {"saving", "done"} /\ report.kind = "full" => ConsistencyReturned
    /\ ConsistencyReturned =>
          /\ Len(consistencyCalls) = 1
          /\ InFlightOf("consistency") = {}
          /\ consistencyCalls[1].records = scrapedContent
          /\ ~terminologyResults.isNull
          /\ ConsistencyFailed => terminologyResults = EmptyTerminologyResults
          /\ pc = "failed" => error = "TypeError in generateReport"

\* the request failed, the zeroed structure was returned and the run went on
C13_Witness ==
    /\ ConsistencyFailed
    /\ Len(scrapedContent) >= 2
    /\ pc = "saving"

\* C14: whatever the Consistency Oracle's request ends in (it raises, its
\* content does not parse, or it parses into fields that are missing or of
\* an unexpected shape), a run with at least two fetched records whose
\* quality comparison has completed generates the report and ends
\* successfully
C14_ConsistencyNeverAborts ==
    (ConsistencyReturned /\ Len(scrapedContent) >= 2) =>
        /\ pc \in {"saving", "done"}
        /\ report.kind = "full"
        /\ pc = "done" => exitCode = "0"

\* the fetches scrapeMultipleLanguages has completed, in order
StageFetches == SelectSeq(fetchLog, LAMBDA f : f.stage = "scrape")

RECURSIVE PagesOf(_)
\* the pages of the successful fetches of a log, in order
PagesOf(log) ==
    IF log = <<>> THEN <<>>
    ELSE IF Head(log).ok THEN <<Head(log).page>> \o PagesOf(Tail(log))
    ELSE PagesOf(Tail(log))

\* C15: scrapeMultipleLanguages never raises: it fetches the base URL and
\* then every language URL in list order, whatever failed before, and
\* returns exactly the records of the fetches that succeeded, in that order
C15_ScrapeNeverRaises ==
    /\ scrapedContent = PagesOf(StageFetches)
    /\ \A k \in 1..Len(StageFetches) :
          StageFetches[k].url = IF k = 1 THEN url ELSE languageUrls[k - 1]
    /\ FetchStageOver =>
          /\ Len(StageFetches) = 1 + Len(languageUrls)
          /\ InFlightOf("scrapeBase") = {}
          /\ InFlightOf("scrapeLang") = {}
    /\ pc = "failed" => FetchStageOver

\* the stage is over, and a fetch that succeeded followed one that failed
C15_Witness ==
    /\ FetchStageOver
    /\ Len(StageFetches) >= 3
    /\ \E k \in 1..(Len(StageFetches) - 1) :
          ~StageFetches[k].ok /\ StageFetches[k + 1].ok

\* the fetch of the requested URL by scrapeMultipleLanguages succeeded
BaseFetched == StageFetches # <<>> /\ StageFetches[1].ok

\* C16 as stated: the first element of the sequence handed to the Baseline
\* Selector is always the page of the requested URL, so that a fallback
\* baseline is always the requested URL's page
C16_Original ==
    BaselineSelected =>
        /\ scrapedContent[1].url = url
        /\ warned => baseline.url = url

\* C16 as amended: the first element of the sequence handed to the Baseline
\* Selector is the page of the first fetch of the stage that succeeded: the
\* requested URL's page when its fetch succeeded, otherwise the page of the
\* first language URL fetched successfully; a fallback baseline is that
\* first element
C16_Amended ==
    BaselineSelected =>
        /\ scrapedContent[1] = PagesOf(StageFetches)[1]
        /\ BaseFetched =>
              /\ scrapedContent[1] = StageFetches[1].page
              /\ scrapedContent[1].url = url
        /\ ~BaseFetched =>
              \E k \in 2..Len(StageFetches) :
                  /\ StageFetches[k].ok
                  /\ \A j \in 1..(k - 1) : ~StageFetches[j].ok
                  /\ scrapedContent[1] = StageFetches[k].page
                  /\ scrapedContent[1].url = languageUrls[k - 1]
        /\ warned => baseline = scrapedContent[1]
        /\ (warned /\ BaseFetched) => baseline.url = url

\* the fallback chose the requested URL's page among several records
C16_Witness ==
    /\ BaselineSelected
    /\ warned
    /\ BaseFetched
    /\ Len(scrapedContent) >= 2
    /\ baseline.url = url

\* the full report has been generated
ReportGenerated == pc \in {"saving", "done"} /\ report.kind = "full"

\* the degraded comparisons of the result
DegradedComparisons ==
    {k \in 1..Len(Comparisons) : IsDegraded(Comparisons[k])}

\* the entries of the detailed issues section that show an analysis_error
AnalysisErrorEntries ==
    {n \in 1..Len(report.detailed) :
        /\ report.detailed[n].type = "analysis_error"
        /\ report.detailed[n].severity = "critical"}

\* the answers of the Consistency Oracle that were understood and list no
\* inconsistency
NoInconsistencyAnswers ==
    {o \in ConsistencyOutcomes :
        /\ ConsistencyPath(o) # "caught"
        /\ ~NonEmptyList(o.result.inconsistentTerms)
        /\ ~NonEmptyList(o.result.brandInconsistencies)}

\* every degraded comparison's analysis_error issue is an entry of the
\* detailed issues section and is counted in the critical total shown
DegradedComparisonsShown ==
    ReportGenerated =>
        /\ Cardinality(AnalysisErrorEntries) >= Cardinality(DegradedComparisons)
        /\ \A k \in DegradedComparisons :
              \E n \in AnalysisErrorEntries :
                  report.detailed[n].language = Comparisons[k].targetLanguage
        /\ report.criticalIssues = analysisResults.criticalIssues
        /\ report.criticalIssues.n >= Cardinality(DegradedComparisons)

\* C17: every degraded state is visible in the final report: each degraded
\* comparison's analysis_error issue is listed in the detailed issues and
\* counted in the critical total, and after a failed Consistency Oracle
\* request the terminology section differs from the one rendered for an
\* answer that was understood and lists no inconsistency
C17_DegradedStatesVisible ==
    /\ DegradedComparisonsShown
    /\ (ReportGenerated /\ ConsistencyFailed) =>
          \A o \in NoInconsistencyAnswers :
              report.terminology # generateTerminologyAnalysis(o.result)

\* no page was fetched and no request was issued
NothingIssued ==
    /\ fetchLog = <<>>
    /\ NoOracleCall
    /\ NoDiscoveryRequest
    /\ inFlight = {}

\* C18: the process exits with code 1 when the API key is missing, and has
\* then fetched no page and issued no request; it exits with code 1 when an
\* error propagates from analyzeUrl to main; in every other run that ends it
\* exits with code 0
C18_ExitCodes ==
    /\ ~apiKey => (pc \in {"main", "exited"} /\ NothingIssued)
    /\ pc = "exited" => (~apiKey /\ exitCode = "1")
    /\ pc = "failed" => (error # "none" /\ exitCode = "1")
    /\ pc = "done" => (error = "none" /\ exitCode = "0" /\ inFlight = {})
    /\ pc \notin {"exited", "failed", "done"} =>
          (exitCode = "none" /\ error = "none")

\* the process has exited for want of the API key
C18_Witness == ~apiKey /\ pc = "exited" /\ exitCode = "1"

\* the second invocation of analyzeAgainstBaseline has returned
ReturnedTwice == invocation = 2 /\ pc = "analysed"

\* C19: invoked twice on the same baseline and the same records, with an
\* oracle that answers the same (baseline, target) pair the same way, the
\* comparator returns identical results: nothing of the first invocation
\* survives into the second
C19_SameResultsTwice ==
    ReturnedTwice =>
        /\ analysisResults = firstResults
        /\ Len(oracleCalls) = 2 * Len(contentToAnalyze)

\* the comparator has returned twice after comparing several targets, one of
\* them degraded
C19_Witness ==
    /\ ReturnedTwice
    /\ Len(Comparisons) >= 2
    /\ \E k \in 1..Len(Comparisons) : IsDegraded(Comparisons[k])

\* C20: at most one external operation is outstanding at any time, and the
\* stages are strictly ordered: every fetch of the fetch stage completes
\* before the first Quality Oracle request starts, every Quality Oracle
\* request completes before the Consistency Oracle request starts, and the
\* report is rendered only after the Consistency Oracle request has returned
C20_OneOperationAtATime ==
    /\ Cardinality(inFlight) <= 1
    /\ (oracleCalls # <<>> \/ InFlightOf("quality") # {}) =>
          /\ FetchStageOver
          /\ Len(StageFetches) = 1 + Len(languageUrls)
          /\ InFlightOf("scrapeBase") \cup InFlightOf("scrapeLang") = {}
    /\ (ConsistencyReturned \/ InFlightOf("consistency") # {}) =>
          /\ FetchStageOver
          /\ InFlightOf("quality") = {}
          /\ Len(oracleCalls) = Len(contentToAnalyze)
          /\ Len(Comparisons) = Len(contentToAnalyze)
    /\ report.kind = "full" =>
          (ConsistencyReturned /\ InFlightOf("consistency") = {})
    /\ InFlightOf("write") # {} => report.kind # "none"

\* the Consistency Oracle's request is the one operation outstanding, after
\* several fetches and several requests to the Quality Oracle
C20_Witness ==
    /\ inFlight = {Op("consistency", 1)}
    /\ Len(StageFetches) >= 3
    /\ Len(oracleCalls) >= 2

\* the answers of the Quality Oracle that carry fields named targetUrl,
\* targetLanguage and targetTitle
AnswersWithTarget ==
    {o \in OracleOutcomes : ComparePath(o) # "degraded" /\ o.analysis.hasTarget}

\* C22: in every Comparison, degraded or recovered from the error message
\* or parsed, targetUrl, targetLanguage and targetTitle are the url, the
\* detectedLanguage and the title of the target passed to compareContent,
\* whatever fields the oracle's output has
C22_TargetFieldsFromRecord ==
    /\ Len(Comparisons) <= Len(oracleCalls)
    /\ \A k \in 1..Len(Comparisons) :
          /\ Comparisons[k].targetUrl = oracleCalls[k].target.url
          /\ Comparisons[k].targetLanguage = oracleCalls[k].target.detectedLanguage
          /\ Comparisons[k].targetTitle = oracleCalls[k].target.title
          /\ oracleCalls[k].target = contentToAnalyze[k]

\* a returned result with a Comparison parsed from an answer that carries
\* the target fields, and one recovered from such an answer
C22_Witness ==
    /\ Returned
    /\ \E k \in 1..Len(Comparisons) : \E o \in AnswersWithTarget :
          /\ oracleCalls[k].kind = "ok" /\ o.kind = "ok"
          /\ Comparisons[k] = compareContent(baseline, contentToAnalyze[k], o)
    /\ \E k \in 1..Len(Comparisons) : \E o \in AnswersWithTarget :
          /\ CallSalvaged(k) /\ ComparePath(o) = "salvaged"
          /\ Comparisons[k] = compareContent(baseline, contentToAnalyze[k], o)

\* the fetches of URL u completed so far
FetchesOf(u) == {k \in 1..Len(fetchLog) : fetchLog[k].url = u}

\* the fetches discoverLanguageUrls has completed
DiscoveryFetches == {k \in 1..Len(fetchLog) : fetchLog[k].stage = "discovery"}

\* how often u is among the URLs scrapeMultipleLanguages is given
ListedTimes(u) ==
    (IF u = url THEN 1 ELSE 0)
    + Cardinality({k \in 1..Len(languageUrls) : languageUrls[k] = u})

\* every target is submitted to the Quality Oracle once, in order
TargetsSubmittedOnce ==
    /\ Len(oracleCalls) <= Len(contentToAnalyze)
    /\ \A k \in 1..Len(oracleCalls) : oracleCalls[k].target = contentToAnalyze[k]

IsPrefix(s, t) == Len(s) <= Len(t) /\ SubSeq(t, 1, Len(s)) = s

\* C23: the comparisons sequence only grows by appending: in every step the
\* previous sequence is a prefix of the current one, at most one Comparison
\* longer, so an appended Comparison is never modified or removed; and the
\* baseline block is never changed once analyzeAgainstBaseline has created
\* the result object
C23_AppendOnly ==
    [][/\ IsPrefix(Comparisons, Comparisons')
       /\ Len(Comparisons') <= Len(Comparisons) + 1
       /\ BaselineSelected =>
             /\ analysisResults'.baseline = analysisResults.baseline
             /\ analysisResults.baseline = NewAnalysisResults(baseline).baseline
      ]_vars

\* the result was returned after two different Comparisons were appended
C23_Witness ==
    /\ Returned
    /\ Len(Comparisons) >= 2
    /\ Comparisons[1] # Comparisons[2]

\* discoverLanguageUrls ended in its catch block: the base page could not be
\* fetched, the model request raised, its content did not parse, or the
\* parsed object could not be read
DiscoveryFailed ==
    discovery \in {"fetchFailed", "raise", "unparsable", "noPatterns"}

\* C24: a failure of language-URL discovery never aborts the run:
\* discoverLanguageUrls returns the empty list and the run goes on to the
\* fetch stage, which fetches the requested URL and nothing else; the run is
\* aborted only when that fetch fails too and nothing was scraped
C24_DiscoveryFailureContinues ==
    DiscoveryFailed =>
        /\ languageUrls = <<>>
        /\ discovery = "fetchFailed" <=> discoveryCalls = 0
        /\ IF pc = "scrapeBase"
           THEN inFlight = {Op("scrapeBase", 1)} /\ StageFetches = <<>>
           ELSE Len(StageFetches) = 1 /\ StageFetches[1].url = url
        /\ pc = "failed" => error = NoContentError /\ ~StageFetches[1].ok
        /\ pc \in {"single", "done"} => StageFetches[1].ok

\* a run that ended successfully, with the requested URL fetched by the
\* discovery and by the fetch stage, after the discovery model's output
\* could not be parsed
C24_Witness ==
    /\ discovery = "unparsable"
    /\ pc = "done"
    /\ exitCode = "0"
    /\ Len(fetchLog) = 2

\* the write of the report file failed
WriteFailed == saved = "failed"

\* C26: a failure to write the report file never aborts the run and never
\* changes its result: the run ends as a successful one, with no error, and
\* returns the report it generated from the results it computed
C26_WriteFailureHarmless ==
    WriteFailed =>
        /\ pc = "done"
        /\ exitCode = "0"
        /\ error = "none"
        /\ inFlight = {}
        /\ IF entry = "analyzer.js" /\ Len(scrapedContent) < 2
           THEN report = generateSingleLanguageReport(scrapedContent[1])
           ELSE /\ report = generateReport(analysisResults, terminologyResults,
                                           scrapedContent)
                /\ Len(Comparisons) = Len(contentToAnalyze)
                /\ ConsistencyReturned

\* a full analysis ended after the write of its report failed
C26_Witness ==
    /\ WriteFailed
    /\ pc = "done"
    /\ report.kind = "full"
    /\ Len(Comparisons) >= 1

\* the place of issue p = <<k, j>> when the issues are taken comparison by
\* comparison and, within a comparison, in the order of its issues
PlaceOf(p) ==
    Cardinality({q \in IssuePositions :
                    q[1] < p[1] \/ (q[1] = p[1] /\ q[2] <= p[2])})

\* C27: the detailed issues of the report are numbered 1, 2, ... up to
\* totalIssues, in comparison order and then issue order, every issue of
\* every Comparison is listed exactly once under its place's number, and the
\* line "No detailed issues found" is there exactly when totalIssues is 0
C27_IssuesNumbered ==
    ReportGenerated =>
        /\ \A n \in 1..Len(report.detailed) : report.detailed[n].number = n
        /\ report.totalIssues = Num(Len(report.detailed))
        /\ Len(report.detailed) = Cardinality(IssuePositions)
        /\ \A p \in IssuePositions :
              LET listed == report.detailed[PlaceOf(p)]
                  issue == Comparisons[p[1]].issues.items[p[2]]
              IN /\ listed.type = issue.type
                 /\ listed.severity = issue.severity
                 /\ listed.language = Comparisons[p[1]].targetLanguage
        /\ report.noDetailedIssues <=> report.totalIssues = Num(0)

\* a report that lists the issues of two Comparisons, one of which has more
\* than one issue
C27_Witness ==
    /\ ReportGenerated
    /\ Len(report.detailed) >= 3
    /\ \E k1, k2 \in 1..Len(Comparisons) :
          /\ k1 < k2
          /\ Len(Comparisons[k1].issues.items) >= 2
          /\ Len(Comparisons[k2].issues.items) >= 1
    /\ ~report.noDetailedIssues

\* the run has ended: main exited, analyzeUrl threw, or it returned
Terminated == pc \in {"exited", "failed", "done"}

\* the fetches and the requests of a run, against the one requested URL and
\* the language URLs discovered or given
OperationsBounded ==
    /\ Len(fetchLog) <=
          (IF entry = "analyzer.js" THEN 2 ELSE 1) + Len(languageUrls)
    /\ discoveryCalls <= 1
    /\ Len(oracleCalls) <= Len(languageUrls)
    /\ Len(consistencyCalls) <= 1

\* the stages of a run, counted from its end
StagesLeft ==
    CASE pc = "main" -> 9
      [] pc = "discoverFetch" -> 8
      [] pc = "discover" -> 7
      [] pc = "scrapeBase" -> 6
      [] pc = "scrapeLang" -> 5
      [] pc = "scraped" -> 4
      [] pc = "compare" -> 3
      [] pc = "analysed" -> 2
      [] pc \in {"single", "saving"} -> 1
      [] OTHER -> 0

\* the turns left of the loop the run is in
TurnsLeft ==
    CASE pc = "scrapeLang" -> Len(languageUrls) - idx + 1
      [] pc = "compare" -> Len(contentToAnalyze) - i + 1
      [] OTHER -> 0

\* a measure of what a run has left to do
WorkLeft == StagesLeft * (MaxLangUrls + 2) + TurnsLeft

\* C25: when every fetch and every oracle request returns or fails, every
\* run terminates, with a result or an abort: each step leaves less to do,
\* and the fetches and oracle requests stay within bounds given by the
\* numbers of requested and discovered URLs
C25_TerminatesWithinBounds ==
    /\ []OperationsBounded
    /\ [][WorkLeft' < WorkLeft /\ WorkLeft' >= 0]_vars
    /\ <>Terminated

\* a run that ended with a result after as many fetches and oracle requests
\* as the bounds allow
C25_Witness ==
    /\ pc = "done"
    /\ Len(languageUrls) = MaxLangUrls
    /\ Len(fetchLog) = 2 + Len(languageUrls)
    /\ Len(oracleCalls) = Len(languageUrls)
    /\ Len(consistencyCalls) = 1

====
